---------------------------- MODULE Spec2Model ----------------------------
(***************************************************************************)
(* State-machine model of the gazebo-robot-control relay.                  *)
(*                                                                         *)
(*   backend/main.py            browser WebSocket endpoint, command        *)
(*                              router (handle_command), telemetry fan-out *)
(*   backend/platform_client.py PlatformClient: the Socket.IO session to   *)
(*                              the platform (upstream channel)            *)
(*   backend/ros2_bridge.py     RobotControlNode / ROS2Bridge: the variant *)
(*                              that publishes to /cmd_vel directly        *)
(*                                                                         *)
(* The program is a single asyncio event loop: a task runs without         *)
(* interruption from one await to the next.  An action of the model is     *)
(* the code a task runs between two suspension points.                     *)
(***************************************************************************)
EXTENDS Integers, Sequences, FiniteSets, TLC

\* Number of browser WebSocket connections that may attach during a run.
NumConns == 2

Conns == 1..NumConns

\* Number of spin_robot calls made on the ROS2 node during a run, and the
\* number of messages on /cmd_vel up to which send_velocity calls are followed.
NumSpins == 3
MaxCmdVel == 4

Spins == 1..NumSpins

---------------------------------------------------------------------------
(* JSON values of a command field.  A field is absent from the object, a   *)
(* number, or a value of another JSON type (string, null, list, object).   *)

Absent == [tag |-> "absent", val |-> 0]
NonNum == [tag |-> "str", val |-> 0]
Num(n) == [tag |-> "num", val |-> n]

IsNum(v) == v.tag = "num"

\* Values a browser may put in a numeric field.
FieldVals == {Absent, Num(0), Num(1), NonNum}

\* Defaults of command.get(key, default) in handle_command.
DefaultLinearX == 0
DefaultAngularZ == 0
DefaultAngularSpeed == 2
DefaultDuration == 5

\* reconnection_attempts of the socketio.AsyncClient.
ReconnectionAttempts == 5

\* dict.get(key, default): the default is used only when the key is absent.
Get(cmd, key, default) == IF cmd[key] = Absent THEN default ELSE cmd[key]

\* A decoded browser message.  shape: "dict" (a JSON object), "nondict" (any
\* other JSON value: list, string, number, null) or "nonjson" (json.loads
\* raises).  type "<absent>": the object has no "type" key.
Cmd(shape, type, lx, az, sp, du) ==
    [shape |-> shape, type |-> type, linear_x |-> lx, angular_z |-> az,
     angular_speed |-> sp, duration |-> du]

NoCmd == Cmd("none", "<absent>", Absent, Absent, Absent, Absent)

MoveCmds == {Cmd("dict", "move", lx, az, Absent, Absent) :
                lx \in {Absent, Num(1), NonNum}, az \in {Absent, Num(1), NonNum}}
SpinCmds == {Cmd("dict", "spin", Absent, Absent, sp, du) :
                sp \in {Absent, Num(1), NonNum}, du \in FieldVals}
OtherCmds == {Cmd("dict", t, Absent, Absent, Absent, Absent) :
                t \in {"stop", "dance", "<absent>"}}
BadCmds == {Cmd("nondict", "<absent>", Absent, Absent, Absent, Absent),
            Cmd("nonjson", "<absent>", Absent, Absent, Absent, Absent)}

Commands == MoveCmds \cup SpinCmds \cup OtherCmds \cup BadCmds

\* command.get("type"): None when the key is absent.
CmdType(cmd) == IF cmd.type = "<absent>" THEN "<None>" ELSE cmd.type

\* f"{cmd_type}": str() of the value.
Format(kind) == IF kind = "<None>" THEN "None" ELSE kind

\* Wire message of sio.emit('twist_command', ...).
Twist(lx, az) == [event |-> "twist_command", linear_x |-> lx, angular_z |-> az]

\* Events sent to a browser.
ErrorEvent(msg) == [type |-> "error", message |-> msg, command |-> "", duration |-> Absent]
CommandSent(c, d) == [type |-> "command_sent", message |-> "", command |-> c, duration |-> d]

ToSet(s) == {s[i] : i \in 1..Len(s)}

\* list.remove(x): drops the first occurrence of x.
RECURSIVE Remove(_, _)
Remove(s, x) ==
    IF s = <<>> THEN <<>>
    ELSE IF Head(s) = x THEN Tail(s)
    ELSE <<Head(s)>> \o Remove(Tail(s), x)

\* active_connections.remove(websocket) as a call: the list afterwards and
\* whether it raised (ValueError when the element is not in the list).
list_remove(s, x) ==
    IF x \in ToSet(s)
    THEN [list |-> Remove(s, x), raised |-> FALSE]
    ELSE [list |-> s, raised |-> TRUE]

---------------------------------------------------------------------------
VARIABLES
    app,                \* process lifecycle: "boot", "confirm", "serving", "stopped"
    platform_client,    \* TRUE iff the global platform_client is not None
    connected,          \* PlatformClient._connected
    confirmed,          \* the asyncio.Event connection_confirmed of connect()
    link,               \* Socket.IO client: "idle", "up", "retrying", "down"
    attempts,           \* failed reconnection attempts of the current retry
    active_connections, \* the list of attached WebSockets
    endpoint,           \* position of each websocket_endpoint coroutine
    open,               \* whether each browser transport is still open
    expired,            \* whether the asyncio.sleep of a spin has run out
    status_sent,        \* connections whose initial status send has returned
    bcast,              \* the telemetry handler in progress
    overlap,            \* a telemetry handler entered while bcast is in progress
    out,                \* what the step just taken did (observation only)
    bridge,             \* ROS2Bridge: "new" or "running" (_running and node)
    spin_task,          \* RobotControlNode.spin_task: 0 (None) or a call
    spin_call,          \* position of each spin_robot_async coroutine
    cmd_vel             \* the messages published on /cmd_vel, in order

vars == <<app, platform_client, connected, confirmed, link, attempts,
          active_connections, endpoint, open, expired, status_sent, bcast,
          overlap, out, bridge, spin_task, spin_call, cmd_vel>>

rosvars == <<bridge, spin_task, spin_call, cmd_vel>>


---------------------------------------------------------------------------
(* Observation of the step just taken.  op: "command" (one message of the  *)
(* receive loop was handled), "wake" (a spin's sleep returned and the      *)
(* trailing stop was attempted), "attach" (a connection was accepted),     *)
(* "connect" (PlatformClient.connect() returned), "shutdown"               *)
(* (shutdown_event ran), "disconnect" (PlatformClient.disconnect() was     *)
(* called once more), "none" (any other step).                             *)
(*   conn    the connection the step ran on                                *)
(*   cmd     the decoded message                                           *)
(*   up      platform_client and platform_client.is_connected() on entry   *)
(*   isOpen  whether the browser transport accepted the sends              *)
(*   resp    events delivered to the browser, in order                     *)
(*   sent    messages emitted on the upstream channel, in order            *)
(*   threw   an exception was raised while the message was handled         *)
(*   raised  an exception left handle_command                              *)
(*   slept   the value passed to asyncio.sleep (Absent: no sleep)          *)
(*   next    where the endpoint continues                                  *)
(*   ret     the value returned by the call the step completed: connect(), *)
(*           disconnect(), or the send_stop_command() of a wake step       *)
(*           ("True", "False", "None"; "raise": it raised; "": no call)    *)

NoOut ==
    [op |-> "none", conn |-> 0, cmd |-> NoCmd, up |-> FALSE, isOpen |-> FALSE,
     resp |-> <<>>, sent |-> <<>>, threw |-> FALSE, raised |-> FALSE,
     slept |-> Absent, next |-> "none", ret |-> ""]

\* The telemetry handler: phase "idle", "iterating" (suspended in a send of
\* the for loop) or "returned".  idx is the list iterator's next index, snap
\* the list when the iteration began, tried the connections send_json was
\* called on, failed those whose send raised.
NoBcast ==
    [phase |-> "idle", type |-> "", payload |-> Absent, idx |-> 1,
     snap |-> <<>>, tried |-> {}, failed |-> {}]

Init ==
    /\ app = "boot"
    /\ platform_client = FALSE
    /\ connected = FALSE
    /\ confirmed = FALSE
    /\ link = "idle"
    /\ attempts = 0
    /\ active_connections = <<>>
    /\ endpoint = [c \in Conns |-> "new"]
    /\ open = [c \in Conns |-> FALSE]
    /\ expired = [c \in Conns |-> FALSE]
    /\ status_sent = {}
    /\ bcast = NoBcast
    /\ overlap = NoBcast
    /\ out = NoOut
    /\ bridge = "new"
    /\ spin_task = 0
    /\ spin_call = [k \in Spins |-> "new"]
    /\ cmd_vel = <<>>

\* A handler that has returned leaves nothing behind.
Quiesce(b) == IF b.phase = "returned" THEN NoBcast ELSE b

\* Frame of a step of the upstream session: no browser task runs.
BrowsersQuiet ==
    /\ UNCHANGED <<active_connections, endpoint, open, expired, status_sent>>
    /\ UNCHANGED rosvars
    /\ bcast' = Quiesce(bcast)
    /\ overlap' = Quiesce(overlap)

\* The same, for a step that has nothing to report.
BrowsersIdle ==
    /\ BrowsersQuiet
    /\ out' = NoOut

\* Frame of a step of a browser endpoint: the upstream session is untouched.
UpstreamIdle ==
    /\ UNCHANGED <<app, platform_client, connected, confirmed, link, attempts>>
    /\ UNCHANGED rosvars
    /\ bcast' = Quiesce(bcast)
    /\ overlap' = Quiesce(overlap)

---------------------------------------------------------------------------
(* PlatformClient (platform_client.py)                                     *)

\* is_connected()
is_connected == connected

\* health_check's and websocket_endpoint's platform_connected.
platform_connected == platform_client /\ is_connected

\* health_check: the body of the /health response.
health_check ==
    [status |-> "ok", platform_connected |-> platform_connected,
     active_connections |-> Len(active_connections)]

\* The 'connected' event handler registered by connect().
ConnectedHandler ==
    /\ connected' = TRUE
    /\ confirmed' = TRUE

\* Variant of the 'disconnect' handler that leaves _connected as it is.
DisconnectHandlerKeepsFlag == connected' = connected

\* The 'disconnect' event handler registered by connect().
DisconnectHandler == connected' = FALSE

\* Variant of send_twist_command without the "if not self._connected" check:
\* it emits whenever the Socket.IO client accepts the event.
send_twist_commandUnguarded(lx, az) ==
    IF link # "up" THEN [ok |-> FALSE, wire |-> <<>>]
    ELSE [ok |-> TRUE, wire |-> <<Twist(lx, az)>>]

\* send_twist_command: [ok, wire].  sio.emit raises when the namespace is not
\* connected; the except clause turns that into False.
send_twist_command(lx, az) ==
    IF ~connected THEN [ok |-> FALSE, wire |-> <<>>]
    ELSE IF link # "up" THEN [ok |-> FALSE, wire |-> <<>>]
    ELSE [ok |-> TRUE, wire |-> <<Twist(lx, az)>>]

\* send_stop_command
send_stop_command == send_twist_command(Num(0), Num(0))

---------------------------------------------------------------------------
(* startup_event / shutdown_event (main.py) and the Socket.IO session      *)

\* No SESSION_ID / SESSION_TOKEN: standalone mode, platform_client stays None.
StartupStandalone ==
    /\ app = "boot"
    /\ app' = "serving"
    /\ UNCHANGED <<platform_client, connected, confirmed, link, attempts>>
    /\ BrowsersIdle

\* Credentials present, sio.connect() succeeds: connect() goes on to wait
\* for the 'connected' event.
StartupConnect ==
    /\ app = "boot"
    /\ platform_client' = TRUE
    /\ link' = "up"
    /\ app' = "confirm"
    /\ UNCHANGED <<connected, confirmed, attempts>>
    /\ BrowsersIdle

\* Credentials present, sio.connect() raises: connect() returns False and
\* startup_event resets platform_client to None.
StartupConnectFailed ==
    /\ app = "boot"
    /\ connected' = FALSE
    /\ platform_client' = FALSE
    /\ app' = "serving"
    /\ UNCHANGED <<confirmed, link, attempts>>
    /\ BrowsersQuiet
    /\ out' = [NoOut EXCEPT !.op = "connect", !.ret = "False"]

\* The platform emits 'connected' on the namespace.
Ack ==
    /\ link = "up"
    /\ ~connected \/ ~confirmed
    /\ ConnectedHandler
    /\ UNCHANGED <<app, platform_client, link, attempts>>
    /\ BrowsersIdle

\* Variant of the confirmation wait that returns True whether or not the
\* 'connected' event has arrived.
ConnectConfirmedWithoutAck ==
    /\ app = "confirm"
    /\ app' = "serving"
    /\ UNCHANGED <<platform_client, connected, confirmed, link, attempts>>
    /\ BrowsersQuiet
    /\ out' = [NoOut EXCEPT !.op = "connect", !.ret = "True"]

\* wait_for(connection_confirmed.wait()) returns: connect() returns True.
ConnectConfirmed ==
    /\ app = "confirm"
    /\ confirmed
    /\ app' = "serving"
    /\ UNCHANGED <<platform_client, connected, confirmed, link, attempts>>
    /\ BrowsersQuiet
    /\ out' = [NoOut EXCEPT !.op = "connect", !.ret = "True"]

\* wait_for times out: connect() returns False, platform_client = None.
\* The Socket.IO client is left as it is.
ConfirmTimeout ==
    /\ app = "confirm"
    /\ ~confirmed
    /\ platform_client' = FALSE
    /\ app' = "serving"
    /\ UNCHANGED <<connected, confirmed, link, attempts>>
    /\ BrowsersQuiet
    /\ out' = [NoOut EXCEPT !.op = "connect", !.ret = "False"]

\* The transport drops: Socket.IO fires 'disconnect' on the namespace and
\* starts its reconnection loop.
Drop ==
    /\ link = "up"
    /\ DisconnectHandler
    /\ link' = "retrying"
    /\ attempts' = 0
    /\ UNCHANGED <<app, platform_client, confirmed>>
    /\ BrowsersIdle

\* One reconnection attempt fails; after reconnection_attempts the client
\* gives up.
ReconnectFail ==
    /\ link = "retrying"
    /\ attempts' = attempts + 1
    /\ link' = IF attempts + 1 >= ReconnectionAttempts THEN "down" ELSE "retrying"
    /\ UNCHANGED <<app, platform_client, connected, confirmed>>
    /\ BrowsersIdle

\* A reconnection attempt succeeds.
ReconnectOK ==
    /\ link = "retrying"
    /\ link' = "up"
    /\ attempts' = 0
    /\ UNCHANGED <<app, platform_client, connected, confirmed>>
    /\ BrowsersIdle

\* Variant of disconnect() that tears the link down and leaves _connected
\* as it is.
disconnectKeepsFlag ==
    /\ link' = "idle"
    /\ connected' = connected
    /\ attempts' = 0

\* PlatformClient.disconnect(): sio.disconnect() fires the 'disconnect'
\* handler of a client that is connected and is a no-op on one that is not
\* (it does not raise), then _connected = False.
disconnect ==
    /\ link' = "idle"
    /\ DisconnectHandler
    /\ attempts' = 0

\* shutdown_event
Shutdown ==
    /\ app = "serving"
    /\ app' = "stopped"
    /\ IF platform_client THEN disconnect
       ELSE UNCHANGED <<connected, link, attempts>>
    /\ UNCHANGED <<platform_client, confirmed>>
    /\ BrowsersQuiet
    /\ out' = [NoOut EXCEPT !.op = "shutdown",
                            !.ret = IF platform_client THEN "None" ELSE ""]

\* PlatformClient.disconnect() called again on the client that
\* shutdown_event has disconnected.
DisconnectAgain ==
    /\ app = "stopped"
    /\ platform_client
    /\ disconnect
    /\ UNCHANGED <<app, platform_client, confirmed>>
    /\ BrowsersQuiet
    /\ out' = [NoOut EXCEPT !.op = "disconnect", !.ret = "None"]


---------------------------------------------------------------------------
(* Command router: handle_command (main.py)                                *)

\* What one call did: resp (events delivered), sent (upstream emissions),
\* threw / raised, slept (argument of asyncio.sleep) and next, the position
\* of the coroutine afterwards ("sleep": suspended in asyncio.sleep,
\* "raise": an exception is propagating to the caller).
Result(resp, sent, threw, raised, slept, next) ==
    [resp |-> resp, sent |-> sent, threw |-> threw, raised |-> raised,
     slept |-> slept, next |-> next]

\* The except clause of handle_command: send an error event with str(e).
\* resp and sent are what the try block had done before it raised.
ExceptClause(isOpen, resp, sent, slept, e) ==
    IF isOpen
    THEN Result(resp \o <<ErrorEvent(e)>>, sent, TRUE, FALSE, slept, "receive")
    ELSE Result(resp, sent, TRUE, TRUE, slept, "raise")

\* A branch of the try block that sends one event and is done.
Reply(isOpen, ev, sent) ==
    IF isOpen
    THEN Result(<<ev>>, sent, FALSE, FALSE, Absent, "receive")
    ELSE ExceptClause(isOpen, <<>>, sent, Absent, "ConnectionClosed")

\* cmd_type == "move"
MoveBranch(cmd, isOpen) ==
    LET linear_x == Get(cmd, "linear_x", Num(DefaultLinearX))
        angular_z == Get(cmd, "angular_z", Num(DefaultAngularZ))
        success == send_twist_command(linear_x, angular_z)
    IN IF success.ok
       THEN Reply(isOpen, CommandSent("move", Absent), success.wire)
       ELSE Reply(isOpen, ErrorEvent("Failed to send move command"), success.wire)

\* cmd_type == "stop"
StopBranch(cmd, isOpen) ==
    LET success == send_stop_command
    IN IF success.ok
       THEN Reply(isOpen, CommandSent("stop", Absent), success.wire)
       ELSE Reply(isOpen, ErrorEvent("Failed to send stop command"), success.wire)

\* await asyncio.sleep(duration) after the command_sent event of a spin:
\* "delay <= 0" raises TypeError for a value that is not a number.
SpinSleep(isOpen, resp, sent, duration) ==
    IF IsNum(duration)
    THEN Result(resp, sent, FALSE, FALSE, duration, "sleep")
    ELSE ExceptClause(isOpen, resp, sent, duration, "TypeError")

\* cmd_type == "spin"
SpinBranch(cmd, isOpen) ==
    LET angular_speed == Get(cmd, "angular_speed", Num(DefaultAngularSpeed))
        duration == Get(cmd, "duration", Num(DefaultDuration))
        success == send_twist_command(Num(0), angular_speed)
    IN IF success.ok
       THEN IF isOpen
            THEN SpinSleep(isOpen, <<CommandSent("spin", duration)>>,
                           success.wire, duration)
            ELSE ExceptClause(isOpen, <<>>, success.wire, Absent, "ConnectionClosed")
       ELSE Reply(isOpen, ErrorEvent("Failed to send spin command"), success.wire)

\* Variant of the else branch that relays an unknown command as a stop.
UnknownBranchRelays(cmd, isOpen) == StopBranch(cmd, isOpen)

\* else: unknown command type
UnknownBranch(cmd, isOpen) ==
    Reply(isOpen, ErrorEvent("Unknown command: " \o Format(CmdType(cmd))), <<>>)

\* Variant of the guard that does not ask is_connected().
NotConnectedGuardIgnoresFlag == ~platform_client

\* The guard at the top of handle_command.
NotConnectedGuard == ~platform_client \/ ~is_connected

handle_command(cmd, isOpen) ==
    IF NotConnectedGuard
    THEN IF isOpen
         THEN Result(<<ErrorEvent("Not connected to robot")>>, <<>>, FALSE, FALSE,
                     Absent, "receive")
         ELSE Result(<<>>, <<>>, TRUE, TRUE, Absent, "raise")
    ELSE IF cmd.shape # "dict"
    THEN \* command.get raises AttributeError, outside the try block
         Result(<<>>, <<>>, TRUE, TRUE, Absent, "raise")
    ELSE IF CmdType(cmd) = "move" THEN MoveBranch(cmd, isOpen)
    ELSE IF CmdType(cmd) = "stop" THEN StopBranch(cmd, isOpen)
    ELSE IF CmdType(cmd) = "spin" THEN SpinBranch(cmd, isOpen)
    ELSE UnknownBranch(cmd, isOpen)

---------------------------------------------------------------------------
(* websocket_endpoint (main.py)                                            *)

\* Variant of the receive loop without the inner "except Exception": an
\* exception of handle_command reaches the outer handlers and ends the loop.
ReceiveLoopBodyNoCatch(cmd, isOpen) ==
    IF cmd.shape = "nonjson"
    THEN Result(<<>>, <<>>, FALSE, FALSE, Absent, "receive")
    ELSE LET r == handle_command(cmd, isOpen)
         IN [r EXCEPT !.next = IF r.next = "raise" THEN "done" ELSE r.next]

\* The try/except inside the receive loop: json.JSONDecodeError and any
\* Exception of handle_command are logged and the loop goes on.
ReceiveLoopBody(cmd, isOpen) ==
    IF cmd.shape = "nonjson"
    THEN Result(<<>>, <<>>, FALSE, FALSE, Absent, "receive")
    ELSE LET r == handle_command(cmd, isOpen)
         IN [r EXCEPT !.next = IF r.next = "raise" THEN "receive" ELSE r.next]

\* Variant of the endpoint that enters its receive loop right after the
\* append, without sending the status event.
AttachStartsReceiving(c) ==
    /\ app = "serving"
    /\ endpoint[c] = "new"
    /\ active_connections' = Append(active_connections, c)
    /\ endpoint' = [endpoint EXCEPT ![c] = "receive"]
    /\ open' = [open EXCEPT ![c] = TRUE]
    /\ UNCHANGED <<expired, status_sent>>
    /\ UpstreamIdle
    /\ out' = [NoOut EXCEPT !.op = "attach", !.conn = c, !.up = platform_connected]

\* websocket.accept(); active_connections.append(websocket); the status
\* event is built with the current platform_connected (out.up) and the
\* coroutine awaits its send.
Attach(c) ==
    /\ app = "serving"
    /\ endpoint[c] = "new"
    /\ active_connections' = Append(active_connections, c)
    /\ endpoint' = [endpoint EXCEPT ![c] = "status"]
    /\ open' = [open EXCEPT ![c] = TRUE]
    /\ UNCHANGED <<expired, status_sent>>
    /\ UpstreamIdle
    /\ out' = [NoOut EXCEPT !.op = "attach", !.conn = c, !.up = platform_connected]

\* Variant of the finally clause that leaves the list as it is.
FinallyKeepsList(c) ==
    /\ active_connections' = active_connections
    /\ endpoint' = [endpoint EXCEPT ![c] = "done"]

\* The finally clause: active_connections.remove(websocket).
Finally(c) ==
    /\ active_connections' = list_remove(active_connections, c).list
    /\ endpoint' = [endpoint EXCEPT ![c] = "done"]

\* Variant of the endpoint that logs a failed status send and enters its
\* receive loop all the same.
SendStatusSwallowsFailure(c) ==
    /\ app = "serving"
    /\ endpoint[c] = "status"
    /\ endpoint' = [endpoint EXCEPT ![c] = "receive"]
    /\ status_sent' = IF open[c] THEN status_sent \cup {c} ELSE status_sent
    /\ UNCHANGED <<active_connections, open, expired>>
    /\ UpstreamIdle
    /\ out' = NoOut

\* The initial status event is sent; if the send raises the endpoint ends.
SendStatus(c) ==
    /\ app = "serving"
    /\ endpoint[c] = "status"
    /\ IF open[c]
       THEN /\ endpoint' = [endpoint EXCEPT ![c] = "receive"]
            /\ status_sent' = status_sent \cup {c}
            /\ UNCHANGED active_connections
       ELSE /\ Finally(c)
            /\ UNCHANGED status_sent
    /\ UNCHANGED <<open, expired>>
    /\ UpstreamIdle
    /\ out' = NoOut

\* The browser's transport closes (the endpoint has not noticed yet).
Close(c) ==
    /\ app = "serving"
    /\ endpoint[c] \in {"status", "receive", "sleep"}
    /\ open[c]
    /\ open' = [open EXCEPT ![c] = FALSE]
    /\ UNCHANGED <<active_connections, endpoint, expired, status_sent>>
    /\ UpstreamIdle
    /\ out' = NoOut

\* receive_text() raises WebSocketDisconnect.
Detach(c) ==
    /\ app = "serving"
    /\ endpoint[c] = "receive"
    /\ ~open[c]
    /\ Finally(c)
    /\ UNCHANGED <<open, expired, status_sent>>
    /\ UpstreamIdle
    /\ out' = NoOut

\* Variant of the loop that reads the next message while handle_command is
\* still suspended in the sleep of a spin (handle_command run as a task of
\* its own instead of being awaited).
ReadyToReceiveDuringSpin(c) == endpoint[c] \in {"receive", "sleep"}

\* The endpoint is suspended in receive_text(): the loop calls it again only
\* when "await handle_command(...)" for the previous message has returned.
ReadyToReceive(c) == endpoint[c] = "receive"

\* Variant of handle_command in which a command that was emitted upstream
\* cancels the sleeping spins of the other connections (their trailing
\* stops are never sent).
AfterCommandCancelsSpins(c, r) ==
    [d \in Conns |->
        IF d = c THEN r.next
        ELSE IF endpoint[d] = "sleep" /\ r.sent # <<>> THEN "receive"
        ELSE endpoint[d]]

\* Where the endpoints are after connection c handled a message with result
\* r: handle_command moves its own coroutine only; it keeps no handle on
\* the sleep of another spin and cancels none.
AfterCommand(c, r) == [endpoint EXCEPT ![c] = r.next]

\* receive_text() returns a message; it is decoded and handled up to the
\* next suspension of the coroutine (the next receive_text, or the sleep of
\* a spin).  A message may have been received before the transport closed,
\* so the step is possible on a closed transport; every send of the step
\* then raises.
HandleMessage(c, cmd) ==
    /\ app = "serving"
    /\ ReadyToReceive(c)
    /\ \E r \in {ReceiveLoopBody(cmd, open[c])} :
          /\ IF r.next = "done"
             THEN Finally(c)
             ELSE /\ endpoint' = AfterCommand(c, r)
                  /\ UNCHANGED active_connections
          /\ expired' = [expired EXCEPT ![c] = r.next = "sleep" /\ r.slept.val <= 0]
          /\ out' = [op |-> "command", conn |-> c, cmd |-> cmd,
                     up |-> platform_connected, isOpen |-> open[c],
                     resp |-> r.resp, sent |-> r.sent, threw |-> r.threw,
                     raised |-> r.raised, slept |-> r.slept, next |-> r.next,
                     ret |-> ""]
    /\ UNCHANGED <<open, status_sent>>
    /\ UpstreamIdle

\* The event loop's clock reaches the deadline of a spin's sleep.
TimerExpire(c) ==
    /\ app = "serving"
    /\ endpoint[c] = "sleep"
    /\ ~expired[c]
    /\ expired' = [expired EXCEPT ![c] = TRUE]
    /\ UNCHANGED <<active_connections, endpoint, open, status_sent>>
    /\ UpstreamIdle
    /\ out' = NoOut

\* asyncio.sleep returns: await platform_client.send_stop_command(), then
\* handle_command returns and the loop awaits the next message.
Wake(c) ==
    /\ app = "serving"
    /\ endpoint[c] = "sleep"
    /\ expired[c]
    /\ endpoint' = [endpoint EXCEPT ![c] = "receive"]
    /\ expired' = [expired EXCEPT ![c] = FALSE]
    /\ out' = [NoOut EXCEPT !.op = "wake", !.conn = c, !.up = platform_connected,
                            !.isOpen = open[c], !.sent = send_stop_command.wire,
                            !.next = "receive",
                            !.ret = IF send_stop_command.ok THEN "True" ELSE "False"]
    /\ UNCHANGED <<active_connections, open, status_sent>>
    /\ UpstreamIdle


---------------------------------------------------------------------------
(* Telemetry fan-out: handle_pose_update, handle_laser_scan,               *)
(* handle_battery_update (main.py).  The three handlers differ in the      *)
(* message they build and share the loop.                                  *)

\* Upstream event names and the data the platform may deliver with them.
TelemetryKinds == {"robot_pose", "laser_scan", "battery"}
TelemetryData == {Absent, Num(42)}

EmptyList == [tag |-> "list", val |-> 0]

\* The message built from data.get(key, default): the type and the first
\* field (x, ranges, percentage).
TelemetryMessage(kind, data) ==
    IF kind = "robot_pose" THEN [type |-> "pose_update", payload |-> Get([x |-> data], "x", Num(0))]
    ELSE IF kind = "laser_scan" THEN [type |-> "laser_scan", payload |-> Get([ranges |-> data], "ranges", EmptyList)]
    ELSE [type |-> "battery", payload |-> Get([percentage |-> data], "percentage", Num(0))]

\* Variant of the loop without the try/except around the send: a send that
\* raises ends the handler.
LoopStepAborts(b) ==
    IF b.idx > Len(active_connections)
    THEN [b EXCEPT !.phase = "returned"]
    ELSE LET websocket == active_connections[b.idx]
         IN [b EXCEPT !.phase = IF open[websocket] THEN "iterating" ELSE "returned",
                      !.idx = b.idx + 1,
                      !.tried = @ \cup {websocket},
                      !.failed = IF open[websocket] THEN @ ELSE @ \cup {websocket}]

\* One pass of "for websocket in active_connections": the list iterator
\* reads the live list at its index; a send that raises is logged and the
\* loop goes on.  The handler is suspended again in the send, or returns when
\* the iterator is exhausted.
LoopStep(b) ==
    IF b.idx > Len(active_connections)
    THEN [b EXCEPT !.phase = "returned"]
    ELSE LET websocket == active_connections[b.idx]
         IN [b EXCEPT !.phase = "iterating",
                      !.idx = b.idx + 1,
                      !.tried = @ \cup {websocket},
                      !.failed = IF open[websocket] THEN @ ELSE @ \cup {websocket}]

\* A handler entering its loop.
NewBcast(kind, data) ==
    LET m == TelemetryMessage(kind, data)
    IN [phase |-> "iterating", type |-> m.type, payload |-> m.payload,
        idx |-> 1, snap |-> active_connections, tried |-> {}, failed |-> {}]

\* The Socket.IO client delivers an event; the registered callback builds the
\* message and enters the loop (up to the first send, there is no await).
\* No other handler is in progress.
TelemetryEvent(kind, data) ==
    /\ link = "up"
    /\ app \in {"confirm", "serving"}
    /\ bcast.phase # "iterating"
    /\ overlap.phase # "iterating"
    /\ overlap' = Quiesce(overlap)
    /\ bcast' = LoopStep(NewBcast(kind, data))
    /\ out' = NoOut
    /\ UNCHANGED <<app, platform_client, connected, confirmed, link, attempts>>
    /\ UNCHANGED <<active_connections, endpoint, open, expired, status_sent>>
    /\ UNCHANGED rosvars

\* The send returns (or raises) and the loop goes on.
BroadcastResume ==
    /\ bcast.phase = "iterating"
    /\ app \in {"confirm", "serving"}
    /\ bcast' = LoopStep(bcast)
    /\ overlap' = Quiesce(overlap)
    /\ out' = NoOut
    /\ UNCHANGED <<app, platform_client, connected, confirmed, link, attempts>>
    /\ UNCHANGED <<active_connections, endpoint, open, expired, status_sent>>
    /\ UNCHANGED rosvars

\* The Socket.IO client delivers the next event while the handler of an
\* earlier one is suspended in a send: the client runs the handler of every
\* inbound event as a task of its own, and neither the handlers registered
\* by connect() nor the callbacks take a lock or queue the events.  Two
\* handlers in progress are followed.
TelemetryEventDuringBroadcast(kind, data) ==
    /\ link = "up"
    /\ app \in {"confirm", "serving"}
    /\ bcast.phase = "iterating"
    /\ overlap.phase # "iterating"
    /\ overlap' = LoopStep(NewBcast(kind, data))
    /\ out' = NoOut
    /\ UNCHANGED <<app, platform_client, connected, confirmed, link, attempts>>
    /\ UNCHANGED <<active_connections, endpoint, open, expired, status_sent>>
    /\ UNCHANGED rosvars
    /\ UNCHANGED bcast

\* A send of the second handler returns (or raises) and its loop goes on.
OverlapResume ==
    /\ overlap.phase = "iterating"
    /\ app \in {"confirm", "serving"}
    /\ overlap' = LoopStep(overlap)
    /\ bcast' = Quiesce(bcast)
    /\ out' = NoOut
    /\ UNCHANGED <<app, platform_client, connected, confirmed, link, attempts>>
    /\ UNCHANGED <<active_connections, endpoint, open, expired, status_sent>>
    /\ UNCHANGED rosvars

---------------------------------------------------------------------------
(* RobotControlNode and ROS2Bridge (ros2_bridge.py).  The node's coroutines *)
(* run on the asyncio event loop; a step is the code between two awaits.   *)

\* Frame of a step of the ROS2 bridge: the relay is untouched.
RelayIdle ==
    /\ UNCHANGED <<app, platform_client, connected, confirmed, link, attempts>>
    /\ UNCHANGED <<active_connections, endpoint, open, expired, status_sent>>
    /\ bcast' = Quiesce(bcast)
    /\ overlap' = Quiesce(overlap)
    /\ out' = NoOut

\* A message on /cmd_vel: the Twist and the call that published it
\* (by = 0: a send_velocity call of the bridge; kind "spin": the velocity
\* command of spin call by; kind "stop": its trailing stop_robot()).
Published(by, kind, linear_x, angular_z) ==
    [by |-> by, kind |-> kind, linear_x |-> linear_x, angular_z |-> angular_z]

\* RobotControlNode.send_velocity
send_velocity(by, kind, linear_x, angular_z) ==
    cmd_vel' = Append(cmd_vel, Published(by, kind, linear_x, angular_z))

\* RobotControlNode.stop_robot
stop_robot(by) == send_velocity(by, "stop", 0, 0)

\* ROS2Bridge.is_running
is_running == bridge = "running"

\* Angular speeds and velocities a caller may pass.
Speeds == {1, 2}

\* ROS2Bridge.start: the node is created (spin_task = None) and _running set.
BridgeStart ==
    /\ bridge = "new"
    /\ bridge' = "running"
    /\ spin_task' = 0
    /\ UNCHANGED <<spin_call, cmd_vel>>
    /\ RelayIdle

\* ROS2Bridge.send_velocity
BridgeSendVelocity(linear_x, angular_z) ==
    /\ is_running
    /\ Len(cmd_vel) < MaxCmdVel
    /\ send_velocity(0, "velocity", linear_x, angular_z)
    /\ UNCHANGED <<bridge, spin_task, spin_call>>
    /\ RelayIdle

\* "if self.spin_task and not self.spin_task.done(): self.spin_task.cancel()":
\* the positions of the coroutines after the check.  A cancelled task gets
\* CancelledError in its sleep and never reaches stop_robot().
CancelExisting(calls) ==
    IF spin_task # 0 /\ calls[spin_task] = "sleep"
    THEN [calls EXCEPT ![spin_task] = "cancelled"]
    ELSE calls

\* ROS2Bridge.spin_robot -> RobotControlNode.spin_robot_async, up to the
\* await of asyncio.sleep(duration): the existing spin task is cancelled,
\* the velocity command is published.  Nothing assigns spin_task.  The
\* calls are numbered in the order they start.
SpinStart(k, angular_speed) ==
    /\ is_running
    /\ spin_call[k] = "new"
    /\ \A j \in Spins : j < k => spin_call[j] # "new"
    /\ spin_call' = [CancelExisting(spin_call) EXCEPT ![k] = "sleep"]
    /\ send_velocity(k, "spin", 0, angular_speed)
    /\ UNCHANGED <<bridge, spin_task>>
    /\ RelayIdle

\* asyncio.sleep(duration) returns: stop_robot(), "Spin complete".
SpinComplete(k) ==
    /\ spin_call[k] = "sleep"
    /\ spin_call' = [spin_call EXCEPT ![k] = "done"]
    /\ stop_robot(k)
    /\ UNCHANGED <<bridge, spin_task>>
    /\ RelayIdle

---------------------------------------------------------------------------
Next ==
    \/ StartupStandalone
    \/ StartupConnect
    \/ StartupConnectFailed
    \/ Ack
    \/ ConnectConfirmed
    \/ ConfirmTimeout
    \/ Drop
    \/ ReconnectFail
    \/ ReconnectOK
    \/ Shutdown
    \/ DisconnectAgain
    \/ \E c \in Conns : Attach(c)
    \/ \E c \in Conns : SendStatus(c)
    \/ \E c \in Conns : Close(c)
    \/ \E c \in Conns : Detach(c)
    \/ \E c \in Conns, cmd \in Commands : HandleMessage(c, cmd)
    \/ \E c \in Conns : TimerExpire(c)
    \/ \E c \in Conns : Wake(c)
    \/ \E kind \in TelemetryKinds, data \in TelemetryData : TelemetryEvent(kind, data)
    \/ BroadcastResume
    \/ \E kind \in TelemetryKinds, data \in TelemetryData :
          TelemetryEventDuringBroadcast(kind, data)
    \/ OverlapResume
    \/ BridgeStart
    \/ \E linear_x, angular_z \in Speeds : BridgeSendVelocity(linear_x, angular_z)
    \/ \E k \in Spins, angular_speed \in Speeds : SpinStart(k, angular_speed)
    \/ \E k \in Spins : SpinComplete(k)

Spec == Init /\ [][Next]_vars


(* The product of all tasks is large; each claim is checked on the tasks   *)
(* it is about, from the same initial state and with the same actions.     *)

\* startup_event, in every outcome.
Startup ==
    \/ StartupStandalone
    \/ StartupConnect
    \/ StartupConnectFailed
    \/ Ack
    \/ ConnectConfirmed
    \/ ConfirmTimeout

\* The upstream session from startup to shutdown, and the browser
\* connections that observe it (status event, health).
NextUpstream ==
    \/ Startup
    \/ Drop
    \/ ReconnectFail
    \/ ReconnectOK
    \/ Shutdown
    \/ DisconnectAgain
    \/ \E c \in Conns : Attach(c)
    \/ \E c \in Conns : SendStatus(c)
    \/ \E c \in Conns : Close(c)
    \/ \E c \in Conns : Detach(c)

SpecUpstream == Init /\ [][NextUpstream]_vars

\* The browser endpoints and the command router, over an upstream session
\* that may drop and come back.
NextRouter ==
    \/ Startup
    \/ Drop
    \/ ReconnectOK
    \/ \E c \in Conns : Attach(c)
    \/ \E c \in Conns : SendStatus(c)
    \/ \E c \in Conns : Close(c)
    \/ \E c \in Conns : Detach(c)
    \/ \E c \in Conns, cmd \in Commands : HandleMessage(c, cmd)
    \/ \E c \in Conns : TimerExpire(c)
    \/ \E c \in Conns : Wake(c)

SpecRouter == Init /\ [][NextRouter]_vars

\* The telemetry fan-out over browser connections that attach and leave.
NextFanout ==
    \/ Startup
    \/ Drop
    \/ ReconnectOK
    \/ \E c \in Conns : Attach(c)
    \/ \E c \in Conns : SendStatus(c)
    \/ \E c \in Conns : Close(c)
    \/ \E c \in Conns : Detach(c)
    \/ \E kind \in TelemetryKinds, data \in TelemetryData : TelemetryEvent(kind, data)
    \/ BroadcastResume

SpecFanout == Init /\ [][NextFanout]_vars

\* The telemetry handlers as the Socket.IO client runs them: a handler may
\* be entered while another is suspended in a send.
NextTelemetry ==
    \/ Startup
    \/ \E c \in Conns : Attach(c)
    \/ \E c \in Conns : SendStatus(c)
    \/ \E c \in Conns : Close(c)
    \/ \E kind \in TelemetryKinds, data \in TelemetryData : TelemetryEvent(kind, data)
    \/ BroadcastResume
    \/ \E kind \in TelemetryKinds, data \in TelemetryData :
          TelemetryEventDuringBroadcast(kind, data)
    \/ OverlapResume

SpecTelemetry == Init /\ [][NextTelemetry]_vars

\* The ROS2 bridge and the spins of its node.
NextBridge ==
    \/ BridgeStart
    \/ \E linear_x, angular_z \in Speeds : BridgeSendVelocity(linear_x, angular_z)
    \/ \E k \in Spins, angular_speed \in Speeds : SpinStart(k, angular_speed)
    \/ \E k \in Spins : SpinComplete(k)

SpecBridge == Init /\ [][NextBridge]_vars

---------------------------------------------------------------------------
(* Properties                                                              *)

Handled == out.op = "command"
HandledObject == Handled /\ out.cmd.shape = "dict"
KnownKinds == {"move", "stop", "spin"}
IsErrorEvent(ev) == ev.type = "error"

\* C1: a send that raises during a broadcast does not end it.  When the
\* handler returns and the list is the one the iteration began with,
\* send_json was called on every connection of the list, whichever sends
\* raised; the connections whose send did not raise received the event.
FanoutIsolatesSendFailures ==
    (bcast.phase = "returned" /\ active_connections = bcast.snap)
        => ToSet(bcast.snap) \subseteq bcast.tried

\* C1 witness: a battery event with percentage 42 was broadcast, the send
\* to one connection raised and a connection later in the list received it.
FanoutAfterFailedSend ==
    /\ bcast.phase = "returned"
    /\ active_connections = bcast.snap
    /\ bcast.type = "battery"
    /\ bcast.payload = Num(42)
    /\ \E i, j \in 1..Len(bcast.snap) :
          /\ i < j
          /\ bcast.snap[i] \in bcast.failed
          /\ bcast.snap[j] \in bcast.tried \ bcast.failed

\* C2: when a broadcast returns, every connection that was in the list when
\* its iteration began, and is still attached, had the send attempted (a
\* connection that left before its turn is not counted as skipped).
BroadcastReachesStartSnapshot ==
    bcast.phase = "returned"
        => \A c \in ToSet(bcast.snap) :
              c \in bcast.tried \/ c \notin ToSet(active_connections)

\* A spin has emitted its velocity command and sent command_sent; its
\* trailing stop is still to come.
SpinPending(c) == endpoint[c] = "sleep"

\* C3: a connection whose spin has issued its velocity command and its
\* command_sent response, and whose trailing stop is still to come, is
\* awaiting its next message.
SpinDoesNotBlockReceiveLoop ==
    \A c \in Conns : SpinPending(c) => endpoint[c] = "receive"

\* C4: a spin (with a numeric or absent duration) whose velocity command
\* was emitted emits exactly twist(0, angular speed) and goes on to its
\* timed stop (the handler is left only through the sleep), and the step
\* that ends the sleep emits the stop, after the timer ran out.
SpinEmitsTwistThenStop ==
    /\ (/\ HandledObject
        /\ CmdType(out.cmd) = "spin"
        /\ IsNum(Get(out.cmd, "duration", Num(DefaultDuration)))
        /\ out.sent # <<>>)
          => /\ out.sent = <<Twist(Num(0), Get(out.cmd, "angular_speed",
                                                 Num(DefaultAngularSpeed)))>>
             /\ out.next = "sleep"
    /\ out.op = "wake" => out.sent = <<Twist(Num(0), Num(0))>>

\* C5 as stated: in every state an unknown kind is answered with exactly
\* the 'Unknown command: <kind>' error and nothing is emitted upstream.
UnknownKindAlwaysUnknownError ==
    (HandledObject /\ CmdType(out.cmd) \notin KnownKinds)
        => /\ out.resp = <<ErrorEvent("Unknown command: " \o Format(CmdType(out.cmd)))>>
           /\ out.sent = <<>>

\* C5 amended: for an unknown kind nothing is emitted upstream; a browser
\* whose transport is open is sent exactly one error event, 'Unknown
\* command: <kind>' while the upstream channel is present and connected and
\* 'Not connected to robot' otherwise.
UnknownKindAnswer ==
    (HandledObject /\ CmdType(out.cmd) \notin KnownKinds)
        => /\ out.sent = <<>>
           /\ out.isOpen /\ out.up
                => out.resp = <<ErrorEvent("Unknown command: " \o Format(CmdType(out.cmd)))>>
           /\ out.isOpen /\ ~out.up
                => out.resp = <<ErrorEvent("Not connected to robot")>>
           /\ ~out.isOpen => out.resp = <<>>

\* C5 witness: an unknown kind handled while the upstream channel is
\* connected.
UnknownKindWhileConnected ==
    /\ HandledObject
    /\ out.cmd.type = "dance"
    /\ out.up
    /\ out.isOpen
    /\ out.resp = <<ErrorEvent("Unknown command: dance")>>

\* C6: while the upstream channel is absent or not connected, a move, stop
\* or spin is answered with the not-connected error (when the browser can
\* still be written to), nothing is emitted upstream, and the endpoint
\* stays attached and goes on to its next message.
NotConnectedRejects ==
    (HandledObject /\ CmdType(out.cmd) \in KnownKinds /\ ~out.up)
        => /\ out.sent = <<>>
           /\ out.isOpen => out.resp = <<ErrorEvent("Not connected to robot")>>
           /\ endpoint[out.conn] = "receive"
           /\ out.conn \in ToSet(active_connections)

\* C6 witness: a move rejected in standalone mode or after a failed startup
\* connect (platform_client is None).
MoveRejectedWithoutClient ==
    /\ HandledObject
    /\ out.cmd.type = "move"
    /\ ~platform_client
    /\ out.isOpen
    /\ out.resp = <<ErrorEvent("Not connected to robot")>>

\* The value the documentation promises for a numeric field.
Numeric(v, default) == IF IsNum(v) THEN v ELSE Num(default)

\* C7: the value used for a numeric field that is absent or not a number
\* is the documented default, and the command is carried out: a move emits
\* one twist and is answered command_sent, a spin emits twist(0, speed) and
\* sleeps for the duration.
MalformedFieldsGetDefaults ==
    (HandledObject /\ out.up /\ out.isOpen)
        => /\ CmdType(out.cmd) = "move"
                => /\ out.sent = <<Twist(Numeric(out.cmd.linear_x, DefaultLinearX),
                                         Numeric(out.cmd.angular_z, DefaultAngularZ))>>
                   /\ out.resp = <<CommandSent("move", Absent)>>
           /\ CmdType(out.cmd) = "spin"
                => /\ out.sent = <<Twist(Num(0), Numeric(out.cmd.angular_speed,
                                                         DefaultAngularSpeed))>>
                   /\ out.slept = Numeric(out.cmd.duration, DefaultDuration)
                   /\ out.next = "sleep"

\* C8: an exception raised while a decoded message is handled does not
\* leave handle_command, and an error event is sent to the browser (whose
\* transport is open).
ExceptionsBecomeErrorEvents ==
    (Handled /\ out.cmd.shape \in {"dict", "nondict"} /\ out.isOpen /\ out.threw)
        => /\ ~out.raised
           /\ \E i \in 1..Len(out.resp) : IsErrorEvent(out.resp[i])

\* C9: whatever a handled message did (not JSON, unknown kind, rejection,
\* exception), the endpoint stays attached and goes on to its next
\* suspension point; an endpoint has ended, and left the list, only if
\* its transport is closed.
ApplicationFailuresKeepConnection ==
    /\ Handled => /\ endpoint[out.conn] \in {"receive", "sleep"}
                  /\ out.conn \in ToSet(active_connections)
    /\ \A c \in Conns : open[c] => /\ endpoint[c] # "done"
                                   /\ c \in ToSet(active_connections)

\* C9 witness: an exception left handle_command on a connection whose
\* transport is open, and the endpoint awaits its next message.
LoopSurvivesException ==
    /\ Handled
    /\ out.raised
    /\ open[out.conn]
    /\ endpoint[out.conn] = "receive"

\* C10 as stated: is_connected() turns false only in a step in which the
\* reconnection attempts run out or disconnect() is called.
DropKeepsObservableState ==
    [][(connected /\ ~connected') => (link' = "down" \/ app' = "stopped")]_vars

\* C10 amended: is_connected() is false whenever the link is not up: from
\* the moment of the drop, during the reconnection attempts, after they run
\* out and after disconnect().
FlagFalseWhileLinkNotUp == link # "up" => ~connected

\* C10 witness: a confirmed session has dropped, reconnection is under way
\* and is_connected() is already false.
RetryingAfterDrop ==
    /\ app = "serving"
    /\ platform_client
    /\ confirmed
    /\ link = "retrying"
    /\ attempts < ReconnectionAttempts
    /\ ~is_connected

\* C11: connect() returns a value and never raises; it returns True only
\* when the 'connected' acknowledgement has arrived, and after it returned
\* False (sio.connect failed, or the acknowledgement did not arrive in the
\* window) nothing waits for the confirmation again.
ConnectReportsOutcome ==
    out.op = "connect"
        => /\ out.ret \in {"True", "False"}
           /\ out.ret = "True" => confirmed
           /\ out.ret = "False" => ~confirmed
           /\ app = "serving"

\* C11 witness: sio.connect() succeeded, the acknowledgement did not arrive
\* and connect() returned False.
ConnectTimedOut ==
    /\ out.op = "connect"
    /\ out.ret = "False"
    /\ link = "up"
    /\ ~confirmed
    /\ ~platform_client

\* The upstream channel is in its Connected state: the acknowledgement was
\* received on a link that is up and no drop or disconnect came since.
ChannelConnected == is_connected /\ link = "up"

\* C12: a twist_command (of a move, a stop, a spin or a spin's trailing
\* stop) is emitted upstream only while the channel is Connected; in any
\* other state send_twist_command and send_stop_command emit nothing and
\* return False, as the trailing stop of a spin does after a drop.
TwistOnlyWhileConnected ==
    /\ out.sent # <<>> => ChannelConnected
    /\ ~ChannelConnected
         => /\ \A lx, az \in FieldVals :
                  send_twist_command(lx, az) = [ok |-> FALSE, wire |-> <<>>]
            /\ send_stop_command = [ok |-> FALSE, wire |-> <<>>]
    /\ (out.op = "wake" /\ ~ChannelConnected)
         => /\ out.sent = <<>>
            /\ out.ret = "False"

\* C12 witness: the channel dropped while a spin was sleeping; the trailing
\* stop was attempted, emitted nothing and returned False.
StopAttemptedAfterDrop ==
    /\ out.op = "wake"
    /\ platform_client
    /\ ~ChannelConnected
    /\ out.sent = <<>>
    /\ out.ret = "False"

\* The upstream channel is in its Disconnected state.
ChannelDisconnected == ~is_connected /\ link \in {"idle", "down"}

DetachIsIdempotent ==
    \A c \in Conns :
        (endpoint[c] = "done" /\ c \notin ToSet(active_connections))
            => list_remove(active_connections, c)
                 = [list |-> active_connections, raised |-> FALSE]

\* C15: at most one spin has its trailing stop pending on the shared
\* upstream connection: starting a spin cancels the pending stop of an
\* earlier one, so two connections are never both in a spin's sleep.
AtMostOneSpinTimer ==
    Cardinality({c \in Conns : SpinPending(c)}) <= 1

\* The endpoint of c has appended c and has not ended.
Attached(c) == endpoint[c] \in {"status", "receive", "sleep"}

\* C16: a connection is in active_connections from its attach on, and its
\* endpoint reads and handles messages only after the send of its status
\* event has returned: no command of a connection is dispatched before.
StatusBeforeCommands ==
    /\ \A c \in Conns : Attached(c) => c \in ToSet(active_connections)
    /\ \A c \in Conns : endpoint[c] \in {"receive", "sleep"} => c \in status_sent
    /\ Handled => out.conn \in status_sent

\* C16 witness: a command of a connection was dispatched and answered, its
\* status event having been sent.
CommandAfterStatus ==
    /\ Handled
    /\ out.conn \in status_sent
    /\ out.conn \in ToSet(active_connections)
    /\ out.resp # <<>>

\* C17: the commands of one connection are handled one after the other, in
\* the order receive_text() returns them: a command is dispatched only by
\* an endpoint that is awaiting its next message, so the transmissions and
\* the response of the command before it (the trailing stop of a spin
\* included) have all been made.  Nothing orders the commands of different
\* connections.
CommandsInReceiptOrder ==
    [][\A c \in Conns :
          (out'.op = "command" /\ out'.conn = c)
              => (endpoint[c] = "receive" /\ ~SpinPending(c))]_vars

\* C17 witness: the trailing stop of a spin was transmitted and the
\* connection goes on to read its next message only now.
SpinCompletedBeforeNextRead ==
    /\ out.op = "wake"
    /\ out.sent = <<Twist(Num(0), Num(0))>>
    /\ endpoint[out.conn] = "receive"
    /\ open[out.conn]

\* C18: the callback of a telemetry kind is never running twice at the same
\* time (an event's handler is entered only when the handler of the event
\* of that kind before it has returned), so a browser that was sent the
\* later event of a kind has been sent the earlier one.
TelemetryCallbackSequential ==
    (bcast.phase = "iterating" /\ overlap.phase # "idle"
                               /\ overlap.type = bcast.type)
        => /\ overlap.phase # "iterating"
           /\ (overlap.tried \ overlap.failed) \subseteq bcast.tried

\* C19: the active_connections of the health response is the number of
\* connections that have attached and whose endpoint has not ended; each
\* of them is in the list exactly once, and a connection whose endpoint
\* has ended (disconnect, transport error, failed status send) is not in it.
HealthCountsAttached ==
    /\ health_check.active_connections = Cardinality({c \in Conns : Attached(c)})
    /\ ToSet(active_connections) = {c \in Conns : Attached(c)}

\* C19 witness: one endpoint has ended because its status send failed,
\* another is attached, and the health response counts one connection.
HealthAfterFailedStatus ==
    /\ \E c \in Conns : endpoint[c] = "done" /\ c \notin status_sent
    /\ \E c \in Conns : Attached(c)
    /\ health_check.active_connections = 1

\* C20: the pending trailing stop of a spin is not cancelled by a later
\* command: a command handled for another connection leaves the spin asleep
\* with its deadline as it was, the sleep returns when the deadline has
\* passed, and the stop is then transmitted if the channel is Connected.
StaleStopStillFires ==
    /\ [][\A c \in Conns :
            (SpinPending(c) /\ out'.op = "command" /\ out'.conn # c)
                => (endpoint'[c] = "sleep" /\ expired'[c] = expired[c])]_vars
    /\ [][out'.op = "wake" => (SpinPending(out'.conn) /\ expired[out'.conn])]_vars
    /\ []((out.op = "wake" /\ ChannelConnected)
             => out.sent = <<Twist(Num(0), Num(0))>>)

\* C20 witness: while the spin of one connection is asleep, its deadline
\* not reached, a move of another connection was emitted upstream.
MoveDuringPendingSpin ==
    /\ Handled
    /\ CmdType(out.cmd) = "move"
    /\ out.sent # <<>>
    /\ \E c \in Conns \ {out.conn} : SpinPending(c) /\ ~expired[c]

\* C21: a spin_robot_async started while an earlier one is still in its
\* sleep cancels the earlier one: no trailing stop of a spin is published
\* after the velocity command of a spin that was started later.
NewerSpinCancelsEarlierStop ==
    \A i, j \in 1..Len(cmd_vel) :
        (i < j /\ cmd_vel[i].kind = "spin" /\ cmd_vel[j].kind = "stop")
            => cmd_vel[j].by >= cmd_vel[i].by

\* The connections a telemetry handler in progress (or just returned) has
\* called send_json on, and those of them whose send did not raise.
TelemetryTried == bcast.tried \cup overlap.tried
TelemetryDelivered == (bcast.tried \ bcast.failed) \cup (overlap.tried \ overlap.failed)

\* C22 as stated: a connection that was sent a telemetry event has been
\* sent its status event before (with the upstream session confirmed and
\* connected).
StatusFirstEvent ==
    platform_connected => \A c \in TelemetryDelivered : c \in status_sent

\* C22 amended: telemetry is sent only to connections that have been
\* appended to active_connections, and to a connection whose status send
\* has not returned only while its endpoint is suspended in that send (or
\* has ended in it).
TelemetryBeforeStatusOnlyDuringSend ==
    \A c \in TelemetryTried :
        /\ endpoint[c] # "new"
        /\ c \notin status_sent => endpoint[c] \in {"status", "done"}

\* C22 witness: a telemetry event was delivered to a connection whose
\* endpoint is still suspended in the send of its status event.
TelemetryDuringStatusSend ==
    \E c \in TelemetryDelivered :
        /\ platform_connected
        /\ endpoint[c] = "status"
        /\ c \notin status_sent
        /\ open[c]

\* The two halves of C23, for a relay that is serving (the health endpoint
\* answers only then).  The link is acknowledged: health reports
\* platform_connected and handle_command passes its connection guard.
AckedLinkReportedHealthy ==
    (app = "serving" /\ ChannelConnected)
        => (health_check.platform_connected /\ ~NotConnectedGuard)

\* No telemetry handler is entered while health reports platform_connected
\* false.
NoTelemetryWhileUnhealthy ==
    (app = "serving" /\ ~health_check.platform_connected)
        => ~(\E kind \in TelemetryKinds, data \in TelemetryData :
                TelemetryEvent(kind, data))

\* C23: the health endpoint agrees with the upstream link: whenever the
\* 'connected' acknowledgement has been received and the link has not
\* dropped since (also when it arrived after the confirmation wait timed
\* out), health reports platform_connected true and commands are relayed;
\* and while health reports platform_connected false, no telemetry of the
\* upstream link is broadcast to the browsers.
HealthAgreesWithLink ==
    /\ []AckedLinkReportedHealthy
    /\ [][NoTelemetryWhileUnhealthy]_vars

=============================================================================
